---- MODULE Spec2Model ----
(***************************************************************************)
(* Goal coordinator of the UR driver: ActionServer (action_server.cpp).    *)
(* Three threads share the server object: the admission thread (onGoal,    *)
(* onCancel, the callbacks of the action transport), the robot-state       *)
(* handler (onRobotStateChange, which synchronises with the others only    *)
(* through tj_mutex_ and the atomic flags) and the execution thread        *)
(* (trajectoryThread).  Telemetry (updateState) and the wall clock are the *)
(* environment.                                                            *)
(*                                                                         *)
(* Units: positions are integers in steps of 0.0005 rad, speeds in steps   *)
(* of 0.005 rad/s, times are microseconds.  `now` is ros::Time::now()      *)
(* measured from the instant the execution thread last computed `timeout`. *)
(***************************************************************************)
EXTENDS Integers, Sequences, FiniteSets, TLC

\* ---------------------------------------------------------------- bounds
MaxGoals == 2

\* ------------------------------------------------------------- constants
NJ == 6
tolerance == 5
speed_threshold == 2
max_velocity_ == 20
SUCCESSFUL == 0
INVALID_GOAL == 0 - 1
INVALID_JOINTS == 0 - 2
ERR == 0 - 100

NoGoal == 0

joint_names_ == <<"j1", "j2", "j3", "j4", "j5", "j6">>

Range(s) == {s[i] : i \in 1..Len(s)}

joint_set_ == Range(joint_names_)

RobotStates == {"Running", "ProtectiveStopped", "EmergencyStopped", "Error"}

\* the states the handler is notified of
StateInputs == {"Running", "ProtectiveStopped"}

\* ------------------------------------------------------- telemetry samples
Home == <<0, 0, 0, 0, 0, 0>>
TargetQ == <<100, 200, 300, 400, 500, 600>>
TargetEdge == <<100, 200, 305, 400, 500, 600>>
TargetOff == <<100, 200, 306, 400, 500, 600>>
Still == <<0, 0, 0, 0, 0, 0>>
SlowEdge == <<0, 0 - 2, 0, 0, 0, 0>>
Moving == <<0, 0, 0, 3, 0, 0>>

Sample(q, qd) == [q_actual |-> q, qd_actual |-> qd]

\* on the target and at rest, both on the edge of the thresholds; off the
\* target at rest; on the target and moving; off the target and moving
RTSamples ==
  {Sample(TargetEdge, SlowEdge), Sample(TargetOff, SlowEdge),
   Sample(TargetEdge, Moving), Sample(TargetOff, Moving)}

\* ------------------------------------------------------------ goal inputs
Fin(v) == [fin |-> TRUE, v |-> v]
NaN == [fin |-> FALSE, v |-> 0]

FinVec(s) == [i \in 1..Len(s) |-> Fin(s[i])]

Duration(sec, nsec) == [sec |-> sec, nsec |-> nsec]

Point(p, v, tfs) == [positions |-> p, velocities |-> v, time_from_start |-> tfs]

\* one point at t = 0, canonical joint order
GoalHold ==
  [joint_names |-> joint_names_,
   points |-> <<Point(FinVec(TargetQ), FinVec(Still), Duration(0, 0))>>]

\* one point at t = 1 s, joints j1 and j2 swapped in the goal's order
GoalMove ==
  [joint_names |-> <<"j2", "j1", "j3", "j4", "j5", "j6">>,
   points |-> <<Point(FinVec(<<200, 100, 300, 400, 500, 600>>), FinVec(Still), Duration(1, 500))>>]

GoalBadJoints ==
  [joint_names |-> <<"j1", "j2", "j3", "j4", "j5", "elbow">>,
   points |-> <<Point(FinVec(Home), FinVec(Still), Duration(0, 0))>>]

GoalTooFast ==
  [joint_names |-> joint_names_,
   points |-> <<Point(FinVec(TargetQ), FinVec(<<0, 0, 21, 0, 0, 0>>), Duration(1, 0))>>]

\* no point at all
GoalEmpty == [joint_names |-> joint_names_, points |-> <<>>]

GoalNaNPos ==
  [joint_names |-> joint_names_,
   points |-> <<Point(<<Fin(100), Fin(200), NaN, Fin(400), Fin(500), Fin(600)>>,
                      FinVec(Still), Duration(1, 0))>>]

GoalInputs == {GoalHold, GoalMove, GoalBadJoints}

\* goals for the validation alone: five velocities; five positions; a
\* non-finite velocity; a second point that is the first bad one; a point
\* with two defects
GoalShortVel ==
  [joint_names |-> joint_names_,
   points |-> <<Point(FinVec(TargetQ), FinVec(<<0, 0, 0, 0, 0>>), Duration(1, 0))>>]

GoalShortPos ==
  [joint_names |-> joint_names_,
   points |-> <<Point(FinVec(<<100, 200, 300, 400, 500>>), FinVec(Still), Duration(1, 0))>>]

GoalNaNVel ==
  [joint_names |-> joint_names_,
   points |-> <<Point(FinVec(TargetQ), <<Fin(0), NaN, Fin(0), Fin(0), Fin(0), Fin(0)>>,
                      Duration(1, 0))>>]

GoalLateTooFast ==
  [joint_names |-> joint_names_,
   points |-> <<Point(FinVec(Home), FinVec(Still), Duration(0, 0)),
                Point(FinVec(TargetQ), FinVec(<<0, 0, 0, 0, 0 - 21, 0>>), Duration(1, 0))>>]

GoalNaNPosTooFast ==
  [joint_names |-> joint_names_,
   points |-> <<Point(<<NaN, Fin(200), Fin(300), Fin(400), Fin(500), Fin(600)>>,
                      FinVec(<<0, 0, 0, 0, 0, 21>>), Duration(1, 0))>>]

ValidationInputs ==
  GoalInputs \cup {GoalEmpty, GoalShortVel, GoalShortPos, GoalNaNVel, GoalNaNPos,
                   GoalTooFast, GoalLateTooFast, GoalNaNPosTooFast}

\* goals for the translation alone: the joints in canonical order, two
\* swapped, three rotated either way, all six reversed; one or two points;
\* the first point at 0, at half a microsecond, at one second
JointOrders ==
  {joint_names_,
   <<"j2", "j1", "j3", "j4", "j5", "j6">>,
   <<"j2", "j3", "j1", "j4", "j5", "j6">>,
   <<"j3", "j1", "j2", "j4", "j5", "j6">>,
   <<"j6", "j5", "j4", "j3", "j2", "j1">>}

FirstTimes == {Duration(0, 0), Duration(0, 500), Duration(1, 0)}

TranslationGoal(names, tfs, n) ==
  [joint_names |-> names,
   points |-> SubSeq(<<Point(FinVec(<<10, 20, 30, 40, 50, 60>>), FinVec(<<1, 2, 3, 4, 5, 6>>), tfs),
                       Point(FinVec(<<110, 120, 130, 140, 150, 160>>), FinVec(Still),
                             Duration(tfs.sec + 1, 0))>>, 1, n)]

TranslationInputs ==
  {TranslationGoal(names, tfs, n) : names \in JointOrders, tfs \in FirstTimes, n \in 1..2}

VARIABLES
  running_, state_, use_smooth_trajectory_, kill_on_hang_,
  interrupt_traj_, has_goal_, curr_gh_, tj_mutex_,
  q_actual_, qd_actual_, now,
  goals, gh_log,
  pc_adm, adm_gh, adm_res,
  pc_saf,
  pc_exec, exec_gh, trajectory, timeout, sleep_until, timed_out,
  saf_gh

vars == <<running_, state_, use_smooth_trajectory_, kill_on_hang_,
          interrupt_traj_, has_goal_, curr_gh_, tj_mutex_,
          q_actual_, qd_actual_, now,
          goals, gh_log,
          pc_adm, adm_gh, adm_res,
          pc_saf,
          pc_exec, exec_gh, trajectory, timeout, sleep_until, timed_out,
          saf_gh>>

cfgVars == <<running_, use_smooth_trajectory_, kill_on_hang_>>
admVars == <<pc_adm, adm_gh, adm_res>>
execVars == <<pc_exec, exec_gh, trajectory, timeout, sleep_until, timed_out>>
teleVars == <<q_actual_, qd_actual_>>

\* ------------------------------------------------------------ goal handle
Res(code, str) == [error_code |-> code, error_string |-> str]

Event(status, res) ==
  [status |-> status, error_code |-> res.error_code, error_string |-> res.error_string]

\* a call through an empty handle changes no goal
SetStatus(log, gh, status, res) ==
  IF gh = NoGoal THEN log
  ELSE [log EXCEPT ![gh] = Append(@, Event(status, res))]

setAccepted(log, gh) == SetStatus(log, gh, "Accepted", Res(0, ""))

\* the Follower is invoked for the goal (the call is logged with the goal)
FollowerCall(log, gh) == SetStatus(log, gh, "Follower", Res(0, ""))
setRejected(log, gh, res) == SetStatus(log, gh, "Rejected", res)
setAborted(log, gh, res) == SetStatus(log, gh, "Aborted", res)
setSucceeded(log, gh, res) == SetStatus(log, gh, "Succeeded", res)
setCanceled(log, gh, res) == SetStatus(log, gh, "Canceled", res)

\* the transport calls onCancel for the goal
CancelRequested(log, gh) == SetStatus(log, gh, "CancelRequested", Res(0, ""))

TerminalStatus == {"Rejected", "Succeeded", "Aborted", "Canceled"}

TerminalsOf(events) == SelectSeq(events, LAMBDA e : e.status \in TerminalStatus)

Terminals(g) == TerminalsOf(gh_log[g])

\* The log keeps a goal as long as it can still change: a goal that has a
\* terminal result, is not the newest goal and is referred to by no handle
\* of the server (curr_gh_, the handler's gh, the execution thread's goal)
\* is dropped from the log, with its content.
Dropped == <<Event("Dropped", Res(0, ""))>>

NoContent == [joint_names |-> <<>>, points |-> <<>>]

Droppable(log, g, refs) ==
  /\ g \notin refs
  /\ g < Len(log)
  /\ TerminalsOf(log[g]) # <<>>

Keep(log, refs) ==
  [g \in 1..Len(log) |-> IF Droppable(log, g, refs) THEN Dropped ELSE log[g]]

KeepGoals(contents, log, refs) ==
  [g \in 1..Len(contents) |-> IF Droppable(log, g, refs) THEN NoContent ELSE contents[g]]

GoalIds == 1..Len(goals)

\* ------------------------------------------------------------- validation
validateState(res) ==
  CASE state_ = "EmergencyStopped" ->
         [ok |-> FALSE, res |-> [res EXCEPT !.error_string = "Robot is emergency stopped"]]
    [] state_ = "ProtectiveStopped" ->
         [ok |-> FALSE, res |-> [res EXCEPT !.error_string = "Robot is protective stopped"]]
    [] state_ = "Error" ->
         [ok |-> FALSE, res |-> [res EXCEPT !.error_string = "Robot is not ready, check robot_mode"]]
    [] state_ = "Running" -> [ok |-> TRUE, res |-> res]
    [] OTHER -> [ok |-> FALSE, res |-> [res EXCEPT !.error_string = "Undefined state"]]

validateJoints_accepting(goal, res) == [ok |-> TRUE, res |-> res]

\* the error string stands for the message of lines 170-174, which goes on
\* to list the two sets of names
validateJoints(goal, res) ==
  IF Range(goal.joint_names) = joint_set_
  THEN [ok |-> TRUE, res |-> res]
  ELSE [ok |-> FALSE, res |-> Res(INVALID_JOINTS, "Invalid joint names for goal")]

Abs(x) == IF x < 0 THEN 0 - x ELSE x

\* first index at which the test of a loop holds, 0 when none
FirstIdx(tests) ==
  LET hits == {i \in 1..Len(tests) : tests[i]}
  IN IF hits = {} THEN 0 ELSE CHOOSE i \in hits : \A j \in hits : i <= j

\* the last message stands for the text of line 212, which ends with the
\* value of max_velocity_
VelocityError(vs) ==
  LET bad == FirstIdx([i \in 1..Len(vs) |-> ~vs[i].fin \/ Abs(vs[i].v) > max_velocity_])
  IN IF bad = 0 THEN ""
     ELSE IF ~vs[bad].fin THEN "Received a goal with infinities or NaNs in velocity"
     ELSE "Received a goal with velocities that are higher than max_velocity_"

PositionError(ps) ==
  IF FirstIdx([i \in 1..Len(ps) |-> ~ps[i].fin]) = 0 THEN ""
  ELSE "Received a goal with infinities or NaNs in positions"

PointError(point) ==
  IF Len(point.velocities) # Len(joint_names_)
  THEN "Received a goal with an invalid number of velocities"
  ELSE IF Len(point.positions) # Len(joint_names_)
  THEN "Received a goal with an invalid number of positions"
  ELSE IF VelocityError(point.velocities) # "" THEN VelocityError(point.velocities)
  ELSE PositionError(point.positions)

validateTrajectory(goal, res) ==
  LET r == [res EXCEPT !.error_code = INVALID_GOAL]
      bad == FirstIdx([n \in 1..Len(goal.points) |-> PointError(goal.points[n]) # ""])
  IN IF Len(goal.points) < 1 THEN [ok |-> FALSE, res |-> r]
     ELSE IF bad # 0
     THEN [ok |-> FALSE, res |-> [r EXCEPT !.error_string = PointError(goal.points[bad])]]
     ELSE [ok |-> TRUE, res |-> r]

validate(goal, res) ==
  LET s == validateState(res)
      j == validateJoints(goal, s.res)
  IN IF ~s.ok THEN s
     ELSE IF ~j.ok THEN j
     ELSE validateTrajectory(goal, j.res)

\* ------------------------------------------------------------ translation
convert(dur) == dur.sec * 1000000 + dur.nsec \div 1000

IndexOf(s, x) ==
  LET at == FirstIdx([i \in 1..Len(s) |-> s[i] = x])
  IN IF at = 0 THEN Len(s) + 1 ELSE at

reorderMap(goal_joints) ==
  [k \in 1..Len(joint_names_) |-> IndexOf(goal_joints, joint_names_[k])]

\* pos[mapping[i]] = point.positions[i] for i = 0..5, in that order;
\* a slot no i writes keeps the array's indeterminate content
Permute(mapping, src, junk) ==
  [k \in 1..NJ |->
     LET writers == {i \in 1..NJ : mapping[i] = k}
     IN IF writers = {} THEN junk
        ELSE src[CHOOSE i \in writers : \A j \in writers : j <= i].v]

TrajectoryPoint(pos, vel, tfs) ==
  [positions |-> pos, velocities |-> vel, time_from_start |-> tfs]

Translate(goal, mapping, junk) ==
  [n \in 1..Len(goal.points) |->
     TrajectoryPoint(Permute(mapping, goal.points[n].positions, junk),
                     Permute(mapping, goal.points[n].velocities, junk),
                     convert(goal.points[n].time_from_start))]

BuildTrajectory_always(goal, junk) ==
  <<TrajectoryPoint(q_actual_, qd_actual_, 0)>> \o Translate(goal, reorderMap(goal.joint_names), junk)

\* lines 298-323
BuildTrajectory(goal, junk) ==
  LET mapping == reorderMap(goal.joint_names)
      fpt == convert(goal.points[1].time_from_start)
      head == IF fpt > 0 THEN <<TrajectoryPoint(q_actual_, qd_actual_, 0)>> ELSE <<>>
  IN head \o Translate(goal, mapping, junk)

TotalDuration(traj) == traj[Len(traj)].time_from_start

TimeoutDuration_nofactor(t) == t

\* line 355
TimeoutDuration(t) == (t * 3) \div 2

SleepDuration(t) == t \div 10

reachedGoal_strict(goal_point) ==
  \A i \in 1..Len(q_actual_) : ~(Abs(q_actual_[i] - goal_point.positions[i]) >= tolerance)

reachedGoal(goal_point) ==
  \A i \in 1..Len(q_actual_) : ~(Abs(q_actual_[i] - goal_point.positions[i]) > tolerance)

inMotion == \E i \in 1..Len(qd_actual_) : Abs(qd_actual_[i]) > speed_threshold

\* ------------------------------------------------------------------ state
Init ==
  /\ running_ = FALSE
  /\ state_ = "Error"
  /\ use_smooth_trajectory_ = TRUE
  /\ kill_on_hang_ = TRUE
  /\ interrupt_traj_ = FALSE
  /\ has_goal_ = FALSE
  /\ curr_gh_ = NoGoal
  /\ tj_mutex_ = "free"
  /\ q_actual_ = Home
  /\ qd_actual_ = Still
  /\ now = 0
  /\ goals = <<>>
  /\ gh_log = <<>>
  /\ pc_adm = "idle"
  /\ adm_gh = NoGoal
  /\ adm_res = Res(0, "")
  /\ pc_saf = "idle"
  /\ pc_exec = "not_started"
  /\ exec_gh = NoGoal
  /\ trajectory = <<>>
  /\ timeout = 0
  /\ sleep_until = 0
  /\ timed_out = FALSE
  /\ saf_gh = NoGoal

Alive == pc_exec # "exited"

\* the execution thread is between accepting a goal and releasing the lock
ExecutingPCs == {"in_follower", "sleep", "poll_cond", "poll_body", "after_loop"}

Executing == pc_exec \in ExecutingPCs

\* ---------------------------------------------------------- environment
\* ActionServer::start, with the two parameters read from the node handle
start(smooth, kill) ==
  /\ ~running_
  /\ use_smooth_trajectory_' = smooth
  /\ kill_on_hang_' = kill
  /\ running_' = TRUE
  /\ pc_exec' = "wait"
  /\ UNCHANGED <<state_, interrupt_traj_, has_goal_, curr_gh_, tj_mutex_, teleVars, now,
                 goals, gh_log, admVars, pc_saf,
                 exec_gh, trajectory, timeout, sleep_until, timed_out, saf_gh>>

\* updateState, lines 73-78.  The snapshot is read at lines 309, 362 and
\* 364, and each update overwrites the last; the updates modelled are those
\* that arrive while the execution thread polls
updateState(data) ==
  /\ pc_exec \in {"poll_cond", "poll_body"}
  /\ q_actual_' = data.q_actual
  /\ qd_actual_' = data.qd_actual
  /\ UNCHANGED <<cfgVars, state_, interrupt_traj_, has_goal_, curr_gh_, tj_mutex_, now,
                 goals, gh_log, admVars, pc_saf, execVars, saf_gh>>

\* the clock is read only at lines 356, 361 and 362, and only compared with
\* the end of the sleep and with the timeout: it advances to the next of
\* these two instants while the execution thread sleeps or polls
Tick ==
  /\ pc_exec \in {"sleep", "poll_cond", "poll_body"}
  /\ \E instant \in {sleep_until, timeout} :
       /\ instant > now
       /\ now' = instant
  /\ UNCHANGED <<cfgVars, state_, interrupt_traj_, has_goal_, curr_gh_, tj_mutex_, teleVars,
                 goals, gh_log, admVars, pc_saf, execVars, saf_gh>>

\* ------------------------------------------------------ admission thread
\* a handler of the admission thread returns; its locals go out of scope
Return ==
  /\ pc_adm' = "idle"
  /\ adm_gh' = NoGoal
  /\ adm_res' = Res(0, "")

onGoal_interrupting(goal) ==
  /\ Alive
  /\ running_
  /\ pc_adm = "idle"
  /\ Len(goals) < MaxGoals
  /\ LET gh == Len(goals) + 1
         v == validate(goal, Res(ERR, ""))
         log == Append(gh_log, IF v.ok THEN <<>> ELSE <<Event("Rejected", v.res)>>)
         refs == {curr_gh_, exec_gh}
     IN /\ goals' = KeepGoals(Append(goals, goal), log, refs)
        /\ gh_log' = Keep(log, refs)
        /\ interrupt_traj_' = TRUE
        /\ IF v.ok
           THEN /\ adm_gh' = gh
                /\ adm_res' = v.res
                /\ pc_adm' = "try_execute"
           ELSE Return
  /\ UNCHANGED <<cfgVars, state_, has_goal_, curr_gh_, tj_mutex_, teleVars, now,
                 pc_saf, execVars, saf_gh>>

\* onGoal, lines 101-112, up to the call of try_execute: the goal is
\* received and validated, and rejected when validation fails
onGoal(goal) ==
  /\ Alive
  /\ running_
  /\ pc_adm = "idle"
  /\ Len(goals) < MaxGoals
  /\ LET gh == Len(goals) + 1
         v == validate(goal, Res(ERR, ""))
         log == Append(gh_log, IF v.ok THEN <<>> ELSE <<Event("Rejected", v.res)>>)
         refs == {curr_gh_, exec_gh}
     IN /\ goals' = KeepGoals(Append(goals, goal), log, refs)
        /\ gh_log' = Keep(log, refs)
        /\ IF v.ok
           THEN /\ adm_gh' = gh
                /\ adm_res' = v.res
                /\ pc_adm' = "try_execute"
           ELSE Return
  /\ UNCHANGED <<cfgVars, state_, interrupt_traj_, has_goal_, curr_gh_, tj_mutex_, teleVars, now,
                 pc_saf, execVars, saf_gh>>

AbortCurrent_skipped(log, res) == log

\* try_execute, line 248
AbortCurrent(log, res) == setAborted(log, curr_gh_, res)

\* try_execute, lines 239-248: the running_ test and the try_lock; when the
\* lock is taken by another thread the interrupt flag is set and the current
\* goal aborted, the lock not held
tryExecuteTryLock ==
  /\ pc_adm = "try_execute"
  /\ IF ~running_
     THEN /\ gh_log' = setRejected(gh_log, adm_gh,
                                   [adm_res EXCEPT !.error_string = "Internal error"])
          /\ Return
          /\ UNCHANGED <<interrupt_traj_, tj_mutex_>>
     ELSE IF tj_mutex_ = "free"
     THEN /\ tj_mutex_' = "adm"
          /\ pc_adm' = "install"
          /\ UNCHANGED <<interrupt_traj_, adm_gh, adm_res, gh_log>>
     ELSE /\ interrupt_traj_' = TRUE
          /\ adm_res' = [adm_res EXCEPT !.error_string = "Received another trajectory"]
          /\ gh_log' = AbortCurrent(gh_log, adm_res')
          /\ pc_adm' = "lock"
          /\ UNCHANGED <<tj_mutex_, adm_gh>>
  /\ UNCHANGED <<cfgVars, state_, has_goal_, curr_gh_, teleVars, now,
                 goals, pc_saf, execVars, saf_gh>>

tryExecuteLock_nowait ==
  /\ pc_adm = "lock"
  /\ tj_mutex_' = "adm"
  /\ pc_adm' = "install"
  /\ UNCHANGED <<cfgVars, state_, interrupt_traj_, has_goal_, curr_gh_, teleVars, now,
                 goals, gh_log, adm_gh, adm_res, pc_saf, execVars, saf_gh>>

\* try_execute, lines 249-251: blocks for the lock, then sleeps holding it
tryExecuteLock ==
  /\ pc_adm = "lock"
  /\ tj_mutex_ = "free"
  /\ tj_mutex_' = "adm"
  /\ pc_adm' = "install"
  /\ UNCHANGED <<cfgVars, state_, interrupt_traj_, has_goal_, curr_gh_, teleVars, now,
                 goals, gh_log, adm_gh, adm_res, pc_saf, execVars, saf_gh>>

\* try_execute, lines 254-259: the goal becomes the current goal
tryExecuteInstall ==
  /\ pc_adm = "install"
  /\ curr_gh_' = adm_gh
  /\ interrupt_traj_' = FALSE
  /\ has_goal_' = TRUE
  /\ tj_mutex_' = "free"
  /\ gh_log' = Keep(gh_log, {adm_gh, exec_gh})
  /\ goals' = KeepGoals(goals, gh_log, {adm_gh, exec_gh})
  /\ Return
  /\ UNCHANGED <<cfgVars, state_, teleVars, now, pc_saf, execVars, saf_gh>>

\* onCancel, line 117; the transport delivers a cancel request only for a
\* goal that has no terminal status yet, and the request is logged with
\* the goal
onCancel(gh) ==
  /\ Alive
  /\ pc_adm = "idle"
  /\ gh \in GoalIds
  /\ gh_log[gh] # Dropped
  /\ Terminals(gh) = <<>>
  /\ gh_log' = CancelRequested(gh_log, gh)
  /\ interrupt_traj_' = TRUE
  /\ adm_gh' = gh
  /\ pc_adm' = "cancel_lock"
  /\ UNCHANGED <<cfgVars, state_, has_goal_, curr_gh_, tj_mutex_, teleVars, now,
                 goals, adm_res, pc_saf, execVars, saf_gh>>

\* onCancel, lines 119-128: the lock is taken, the goal canceled, the lock
\* released
onCancelSet ==
  /\ pc_adm = "cancel_lock"
  /\ tj_mutex_ = "free"
  /\ LET log == setCanceled(gh_log, adm_gh, Res(ERR, "Goal cancelled by client"))
     IN /\ gh_log' = Keep(log, {curr_gh_, exec_gh})
        /\ goals' = KeepGoals(goals, log, {curr_gh_, exec_gh})
  /\ Return
  /\ UNCHANGED <<cfgVars, state_, interrupt_traj_, has_goal_, curr_gh_, tj_mutex_, teleVars, now,
                 pc_saf, execVars, saf_gh>>

\* ---------------------------------------------------- robot-state handler
SafetyResult == Res(ERR, "Robot safety stop")

\* onRobotStateChange, lines 46-54; saf_gh remembers the goal that is
\* executing when the notification arrives
onRobotStateChange(state) ==
  /\ Alive
  /\ pc_saf = "idle"
  /\ state_' = state
  /\ IF state = "Running" \/ interrupt_traj_ \/ ~has_goal_
     THEN /\ pc_saf' = "idle"
          /\ saf_gh' = NoGoal
     ELSE /\ pc_saf' = "try_lock"
          /\ saf_gh' = IF Executing THEN exec_gh ELSE NoGoal
  /\ UNCHANGED <<cfgVars, interrupt_traj_, has_goal_, curr_gh_, tj_mutex_, teleVars, now,
                 goals, gh_log, admVars, execVars>>

\* lines 57-61: try_lock, and on success unlock and return
stateChangeTryLock ==
  /\ pc_saf = "try_lock"
  /\ IF tj_mutex_ = "free"
     THEN /\ pc_saf' = "idle"
          /\ saf_gh' = NoGoal
     ELSE /\ pc_saf' = "interrupt"
          /\ UNCHANGED saf_gh
  /\ UNCHANGED <<cfgVars, state_, interrupt_traj_, has_goal_, curr_gh_, tj_mutex_, teleVars, now,
                 goals, gh_log, admVars, execVars>>

\* line 63
stateChangeInterrupt ==
  /\ pc_saf = "interrupt"
  /\ interrupt_traj_' = TRUE
  /\ pc_saf' = "lock"
  /\ UNCHANGED <<cfgVars, state_, has_goal_, curr_gh_, tj_mutex_, teleVars, now,
                 goals, gh_log, admVars, execVars, saf_gh>>

\* lines 65-71: the lock is taken, the current goal aborted, the lock released
stateChangeAbort ==
  /\ pc_saf = "lock"
  /\ tj_mutex_ = "free"
  /\ gh_log' = setAborted(gh_log, curr_gh_, SafetyResult)
  /\ pc_saf' = "idle"
  /\ saf_gh' = NoGoal
  /\ UNCHANGED <<cfgVars, state_, interrupt_traj_, has_goal_, curr_gh_, tj_mutex_, teleVars, now,
                 goals, admVars, execVars>>

\* ------------------------------------------------------- execution thread
\* the content of an element of pos or vel that no assignment of lines
\* 318-319 writes
JunkValues == {0, 999}

HungResult == Res(ERR, "Robot has hung. ")
TimeoutResult == Res(ERR, "Robot motion timed out or failed to reach goal.")

\* line 285: the unique_lock is taken
trajWait ==
  /\ pc_exec = "wait"
  /\ running_
  /\ tj_mutex_ = "free"
  /\ tj_mutex_' = "exec"
  /\ pc_exec' = "pred"
  /\ UNCHANGED <<cfgVars, state_, interrupt_traj_, has_goal_, curr_gh_, teleVars, now,
                 goals, gh_log, admVars, pc_saf,
                 exec_gh, trajectory, timeout, sleep_until, timed_out, saf_gh>>

\* lines 286-287: the predicate is tested under the lock; when it is false
\* the lock is given up (inside wait_for, or by `continue`)
trajPred ==
  /\ pc_exec = "pred"
  /\ IF running_ /\ has_goal_
     THEN /\ pc_exec' = "accept"
          /\ UNCHANGED tj_mutex_
     ELSE /\ pc_exec' = "wait"
          /\ tj_mutex_' = "free"
  /\ UNCHANGED <<cfgVars, state_, interrupt_traj_, has_goal_, curr_gh_, teleVars, now,
                 goals, gh_log, admVars, pc_saf,
                 exec_gh, trajectory, timeout, sleep_until, timed_out, saf_gh>>

\* lines 289-335 / 395: the goal is accepted and translated, and the
\* Follower invoked with the trajectory
trajAccept ==
  /\ pc_exec = "accept"
  /\ gh_log' = FollowerCall(setAccepted(gh_log, curr_gh_), curr_gh_)
  /\ exec_gh' = curr_gh_
  /\ \E junk \in JunkValues : trajectory' = BuildTrajectory(goals[curr_gh_], junk)
  /\ pc_exec' = "in_follower"
  /\ UNCHANGED <<cfgVars, state_, interrupt_traj_, has_goal_, curr_gh_, tj_mutex_, teleVars, now,
                 goals, admVars, pc_saf,
                 timeout, sleep_until, timed_out, saf_gh>>

\* exit(0) ends every thread of the process
Exit ==
  /\ pc_exec' = "exited"
  /\ pc_adm' = "exited"
  /\ pc_saf' = "exited"

\* lines 335-361: startSmoothTrajectory returns ok; on failure the goal is
\* aborted and the process exits when kill_on_hang_ is set; otherwise, and
\* on success, the timeout is set and the thread sleeps for 0.1 t
trajSmoothReturn(ok) ==
  /\ pc_exec = "in_follower"
  /\ use_smooth_trajectory_
  /\ gh_log' = IF ok THEN gh_log ELSE setAborted(gh_log, curr_gh_, HungResult)
  /\ IF ~ok /\ kill_on_hang_
     THEN /\ Exit
          /\ UNCHANGED <<now, timeout, sleep_until, timed_out, adm_gh, adm_res>>
     ELSE /\ now' = 0
          /\ timeout' = TimeoutDuration(TotalDuration(trajectory))
          /\ timed_out' = TRUE
          /\ sleep_until' = SleepDuration(TotalDuration(trajectory))
          /\ pc_exec' = "sleep"
          /\ UNCHANGED <<admVars, pc_saf>>
  /\ UNCHANGED <<cfgVars, state_, interrupt_traj_, has_goal_, curr_gh_, tj_mutex_, teleVars,
                 goals, exec_gh, trajectory, saf_gh>>

\* line 361: the sleep ends
trajSleep ==
  /\ pc_exec = "sleep"
  /\ now >= sleep_until
  /\ pc_exec' = "poll_cond"
  /\ UNCHANGED <<cfgVars, state_, interrupt_traj_, has_goal_, curr_gh_, tj_mutex_, teleVars, now,
                 goals, gh_log, admVars, pc_saf,
                 exec_gh, trajectory, timeout, sleep_until, timed_out, saf_gh>>

\* line 362: the loop condition
trajPollCond ==
  /\ pc_exec = "poll_cond"
  /\ pc_exec' = IF now < timeout \/ inMotion THEN "poll_body" ELSE "after_loop"
  /\ UNCHANGED <<cfgVars, state_, interrupt_traj_, has_goal_, curr_gh_, tj_mutex_, teleVars, now,
                 goals, gh_log, admVars, pc_saf,
                 exec_gh, trajectory, timeout, sleep_until, timed_out, saf_gh>>

\* lines 364-379: one pass of the loop body
trajPollBody ==
  /\ pc_exec = "poll_body"
  /\ IF reachedGoal(trajectory[Len(trajectory)]) /\ ~inMotion
     THEN /\ timed_out' = FALSE
          /\ gh_log' = setSucceeded(gh_log, curr_gh_, Res(SUCCESSFUL, ""))
          /\ pc_exec' = "after_loop"
     ELSE IF interrupt_traj_
     THEN /\ timed_out' = FALSE
          /\ pc_exec' = "after_loop"
          /\ UNCHANGED gh_log
     ELSE /\ pc_exec' = "poll_cond"
          /\ UNCHANGED <<timed_out, gh_log>>
  /\ UNCHANGED <<cfgVars, state_, interrupt_traj_, has_goal_, curr_gh_, tj_mutex_, teleVars, now,
                 goals, admVars, pc_saf,
                 exec_gh, trajectory, timeout, sleep_until, saf_gh>>

\* lines 389-391 / 426-427: the Follower is stopped, the goal slot emptied,
\* the lock released; the thread's locals go out of scope, and the snapshot,
\* which nothing reads before the next goal is picked up, is forgotten
Release ==
  /\ has_goal_' = FALSE
  /\ tj_mutex_' = "free"
  /\ pc_exec' = "wait"
  /\ exec_gh' = NoGoal
  /\ trajectory' = <<>>
  /\ now' = 0
  /\ timeout' = 0
  /\ sleep_until' = 0
  /\ timed_out' = FALSE
  /\ q_actual_' = Home
  /\ qd_actual_' = Still

\* lines 382-391: the timeout abort, then the release
trajAfterLoop ==
  /\ pc_exec = "after_loop"
  /\ gh_log' = IF timed_out THEN setAborted(gh_log, curr_gh_, TimeoutResult) ELSE gh_log
  /\ Release
  /\ UNCHANGED <<cfgVars, state_, interrupt_traj_, curr_gh_,
                 goals, admVars, pc_saf, saf_gh>>

\* lines 395-427: startTimedTrajectory returns ok
trajTimedReturn(ok) ==
  /\ pc_exec = "in_follower"
  /\ ~use_smooth_trajectory_
  /\ gh_log' = IF ok
               THEN IF ~interrupt_traj_
                    THEN setSucceeded(gh_log, curr_gh_, Res(SUCCESSFUL, ""))
                    ELSE gh_log
               ELSE setAborted(gh_log, curr_gh_, HungResult)
  /\ IF ~ok /\ kill_on_hang_
     THEN /\ Exit
          /\ UNCHANGED <<has_goal_, tj_mutex_, exec_gh, trajectory, now, timeout, sleep_until,
                         timed_out, adm_gh, adm_res, teleVars>>
     ELSE /\ Release
          /\ UNCHANGED <<admVars, pc_saf>>
  /\ UNCHANGED <<cfgVars, state_, interrupt_traj_, curr_gh_,
                 goals, saf_gh>>

\* ------------------------------------------------------------------ system
Next ==
  \/ \E smooth \in BOOLEAN, kill \in BOOLEAN : start(smooth, kill)
  \/ \E data \in RTSamples : updateState(data)
  \/ Tick
  \/ \E goal \in GoalInputs : onGoal(goal)
  \/ tryExecuteTryLock
  \/ tryExecuteLock
  \/ tryExecuteInstall
  \/ \E gh \in 1..MaxGoals : onCancel(gh)
  \/ onCancelSet
  \/ \E state \in StateInputs : onRobotStateChange(state)
  \/ stateChangeTryLock
  \/ stateChangeInterrupt
  \/ stateChangeAbort
  \/ trajWait
  \/ trajPred
  \/ trajAccept
  \/ \E ok \in BOOLEAN : trajSmoothReturn(ok)
  \/ trajSleep
  \/ trajPollCond
  \/ trajPollBody
  \/ trajAfterLoop
  \/ \E ok \in BOOLEAN : trajTimedReturn(ok)

Spec == Init /\ [][Next]_vars

\* =================================================================== claims
Has(g, status) == \E i \in 1..Len(gh_log[g]) : gh_log[g][i].status = status

HasEvent(g, e) == \E i \in 1..Len(gh_log[g]) : gh_log[g][i] = e

LastEvent(log, g) == log[g][Len(log[g])]

PreemptText == "Received another trajectory"

\* the results only the execution thread reports
ExecEvents == {Event("Succeeded", Res(SUCCESSFUL, "")),
               Event("Aborted", HungResult),
               Event("Aborted", TimeoutResult)}

ExecResults(events) == SelectSeq(events, LAMBDA e : e \in ExecEvents)

\* no thread is inside a handler or an execution, and no goal is pending
Quiescent ==
  /\ Alive
  /\ running_
  /\ pc_adm = "idle"
  /\ pc_saf = "idle"
  /\ pc_exec \in {"wait", "pred"}
  /\ ~has_goal_

\* a goal that onGoal admitted: validation passed and try_execute returned
Admitted(g) ==
  /\ g \in GoalIds
  /\ g # adm_gh
  /\ gh_log[g] # Dropped
  /\ ~Has(g, "Rejected")

\* C1: when onGoal admits goal B while the execution thread holds the lock,
\* the current goal A has its Aborted "Received another trajectory" result
\* from the moment onGoal starts to wait for the lock, hence before B becomes
\* the current goal; and B is neither accepted nor handed to the Follower
\* while onGoal still runs.
C1_PreemptionOrder ==
  /\ (pc_adm \in {"lock", "install"} /\ adm_res.error_string = PreemptText /\ curr_gh_ # NoGoal)
       => \E i \in 1..Len(gh_log[curr_gh_]) :
            /\ gh_log[curr_gh_][i].status = "Aborted"
            /\ gh_log[curr_gh_][i].error_string = PreemptText
  /\ pc_adm \in {"try_execute", "lock", "install"}
       => ~Has(adm_gh, "Accepted") /\ ~Has(adm_gh, "Follower") /\ curr_gh_ # adm_gh /\ exec_gh # adm_gh

\* goal B waits for the lock while goal A, already aborted by B, executes
C1_Witness ==
  /\ pc_adm = "lock"
  /\ Executing
  /\ exec_gh = curr_gh_
  /\ exec_gh # adm_gh
  /\ HasEvent(exec_gh, Event("Aborted", Res(INVALID_GOAL, PreemptText)))

\* C2: no goal receives more than one terminal result.
C2_TerminalFinal == \A g \in GoalIds : Len(Terminals(g)) <= 1

\* C3: every admitted goal receives a terminal result; stated for the
\* states in which nothing is left to run: every admitted goal has one.
C3_NoGoalLost == Quiescent => \A g \in GoalIds : Admitted(g) => Terminals(g) # <<>>

\* C4: the goal the execution thread executes is the current goal, it
\* executes under the execution lock, and the current-goal slot does not
\* change while a goal executes.
C4_SingleSlot ==
  /\ Executing => /\ tj_mutex_ = "exec"
                  /\ has_goal_
                  /\ exec_gh # NoGoal
                  /\ exec_gh = curr_gh_
  /\ pc_exec = "accept" => tj_mutex_ = "exec" /\ has_goal_ /\ curr_gh_ # NoGoal
  /\ pc_adm = "install" => tj_mutex_ = "adm" /\ ~Executing

\* a second goal waits in try_execute while the first executes
C4_Witness ==
  /\ Executing
  /\ pc_adm = "lock"
  /\ adm_gh # exec_gh
  /\ pc_exec = "poll_body"

\* C5: once onCancel has set the interrupt flag for a goal that is
\* executing (the cancel request follows the Follower call in the goal's
\* log), the goal is never reported Succeeded.  Stated for the goals whose
\* Follower call started the motion, so that no hung report is involved.
C5_CancelNotSucceeded ==
  \A g \in GoalIds :
    ~HasEvent(g, Event("Aborted", HungResult)) =>
      \A i, j, k \in 1..Len(gh_log[g]) :
        (i < j /\ j < k /\ gh_log[g][i].status = "Follower"
                        /\ gh_log[g][j].status = "CancelRequested")
          => gh_log[g][k].status # "Succeeded"

C7_OnTarget ==
  \A i \in 1..NJ : Abs(q_actual_[i] - trajectory[Len(trajectory)].positions[i]) <= tolerance

C7_AtRest == \A i \in 1..NJ : Abs(qd_actual_[i]) <= speed_threshold

\* C7: before 1.5 x totalDuration has elapsed the loop condition lets the
\* loop body run; when the body finds the actual state within the tolerance
\* of the final waypoint with every joint speed at most the threshold, and
\* the execution thread has reported nothing for the goal yet, the goal is
\* reported Succeeded with code SUCCESSFUL; and the execution thread reports
\* no abort after a success.
C7_CompletionSuccess ==
  /\ [][(trajPollBody /\ C7_OnTarget /\ C7_AtRest /\ ExecResults(gh_log[curr_gh_]) = <<>>)
          => /\ ExecResults(gh_log'[curr_gh_]) = <<Event("Succeeded", Res(SUCCESSFUL, ""))>>
             /\ ~timed_out'
             /\ pc_exec' = "after_loop"]_vars
  /\ [][(trajPollCond /\ 2 * now < 3 * TotalDuration(trajectory)) => pc_exec' = "poll_body"]_vars
  /\ [][(trajAfterLoop /\ ~timed_out) => gh_log' = gh_log]_vars

\* a one-second trajectory has succeeded before the timeout, the actual
\* state on the edge of the tolerances
C7_Witness ==
  /\ pc_exec = "after_loop"
  /\ ~timed_out
  /\ now < timeout
  /\ q_actual_ = TargetEdge
  /\ qd_actual_ = SlowEdge
  /\ ExecResults(gh_log[curr_gh_]) = <<Event("Succeeded", Res(SUCCESSFUL, ""))>>

\* C8: after the 'Robot has hung' abort the execution thread reports
\* nothing further for the goal.
C8_HangIsTerminal ==
  \A g \in GoalIds :
    LET r == ExecResults(gh_log[g])
    IN \A i \in 1..Len(r) : r[i] = Event("Aborted", HungResult) => i = Len(r)

\* C9: when onRobotStateChange reports a non-Running state while a goal is
\* executing and the interrupt flag is clear, it sets the interrupt flag,
\* takes the lock only once the execution thread has released it, and the
\* goal it then aborts with "Robot safety stop" (code -100) is the goal that
\* was executing when the notification arrived.
C9_SafetyStopTarget ==
  /\ [][(stateChangeTryLock /\ Executing) => pc_saf' = "interrupt"]_vars
  /\ [][stateChangeInterrupt => interrupt_traj_' /\ pc_saf' = "lock"]_vars
  /\ [][(stateChangeAbort /\ saf_gh # NoGoal)
          => /\ ~Executing
             /\ curr_gh_ = saf_gh]_vars

\* C10: every valid goal that is not rejected is accepted by the execution
\* thread and handed to the Follower; stated for the states in which
\* nothing is left to run.
C10_ValidGoalExecutes == Quiescent => \A g \in GoalIds : Admitted(g) => Has(g, "Follower")

\* the goal onGoal has just received, and what was set on it
NewGoal == Len(gh_log')

BadJoints(goal) == Range(goal.joint_names) # joint_set_

JointsResult == Res(INVALID_JOINTS, "Invalid joint names for goal")

\* C11 (as claimed): onGoal rejects every goal whose joint-name set differs
\* from the configured set with error code INVALID_JOINTS.
C11_BadJointsCode ==
  [][\A goal \in GoalInputs :
       (onGoal(goal) /\ BadJoints(goal))
         => /\ LastEvent(gh_log', NewGoal).status = "Rejected"
            /\ LastEvent(gh_log', NewGoal).error_code = INVALID_JOINTS]_vars

\* C11 (amended): onGoal rejects every goal whose joint-name set differs
\* from the configured set, with error code INVALID_JOINTS when the stored
\* robot state is Running and with the state error (code -100) otherwise;
\* such a goal is never the current goal, never accepted and never handed to
\* the Follower.
C11_BadJointsRejected ==
  /\ [][\A goal \in GoalInputs :
          (onGoal(goal) /\ BadJoints(goal))
            => /\ pc_adm' = "idle"
               /\ Len(gh_log'[NewGoal]) = 1
               /\ LastEvent(gh_log', NewGoal).status = "Rejected"
               /\ state_ = "Running"
                    => LastEvent(gh_log', NewGoal) = Event("Rejected", JointsResult)
               /\ state_ # "Running"
                    => LastEvent(gh_log', NewGoal).error_code = 0 - 100]_vars
  /\ [](\A g \in GoalIds :
          (goals[g] # NoContent /\ BadJoints(goals[g]))
            => /\ Terminals(g) = gh_log[g]
               /\ Len(gh_log[g]) = 1
               /\ curr_gh_ # g
               /\ exec_gh # g)

\* a goal with a foreign joint name has been rejected for its joints while
\* another goal executes
C11_Witness ==
  /\ Executing
  /\ \E g \in GoalIds :
       /\ goals[g] = GoalBadJoints
       /\ gh_log[g] = <<Event("Rejected", JointsResult)>>
       /\ exec_gh # g

\* C13: when onGoal rejects a goal because validation fails, the
\* current-goal slot, has_goal_, the interrupt flag, the execution lock and
\* the execution thread's position are left unchanged and nothing is set on
\* any other goal; a rejected goal is never the current goal, never accepted
\* and never handed to the Follower.
C13_RejectionFrame ==
  /\ [][\A goal \in GoalInputs :
          (onGoal(goal) /\ pc_adm' = "idle")
            => /\ UNCHANGED <<curr_gh_, has_goal_, interrupt_traj_, tj_mutex_, execVars>>
               /\ Len(gh_log'[NewGoal]) = 1
               /\ LastEvent(gh_log', NewGoal).status = "Rejected"
               /\ \A g \in 1..Len(gh_log) : gh_log'[g] \in {gh_log[g], Dropped}]_vars
  /\ [](\A g \in GoalIds :
          Has(g, "Rejected")
            => /\ ~Has(g, "Accepted")
               /\ ~Has(g, "Follower")
               /\ curr_gh_ # g
               /\ exec_gh # g)

\* the second goal has been rejected while the first executes, neither
\* interrupted nor aborted
C13_Witness ==
  /\ Executing
  /\ ~interrupt_traj_
  /\ exec_gh = 1
  /\ ~Has(1, "Aborted")
  /\ Len(gh_log) = 2
  /\ Has(2, "Rejected")
  /\ pc_adm = "idle"

\* C16: onRobotStateChange only stores the new state (it sets no interrupt
\* flag and aborts no goal) when the new state is Running, when the
\* interrupt flag is already set, when there is no goal, and when at its
\* try_lock no goal holds the execution lock, i.e. the execution thread does
\* not hold it.
C16_NoOpCases ==
  /\ [][\A state \in StateInputs :
          (onRobotStateChange(state) /\ (state = "Running" \/ interrupt_traj_ \/ ~has_goal_))
            => /\ state_' = state
               /\ pc_saf' = "idle"
               /\ UNCHANGED <<interrupt_traj_, gh_log, curr_gh_, has_goal_, tj_mutex_>>]_vars
  /\ [][(stateChangeTryLock /\ tj_mutex_ # "exec")
          => /\ pc_saf' = "idle"
             /\ UNCHANGED <<interrupt_traj_, gh_log>>]_vars

\* C17: every step that reads or writes the current-goal handle is taken
\* by a thread that holds the execution lock: try_execute when it aborts the
\* current goal (line 248) and when it installs the new one (line 254), the
\* execution thread from the acceptance to the release, and the robot-state
\* handler, which takes the free lock for its abort.
C17_LockedAccess ==
  /\ [][(tryExecuteTryLock /\ pc_adm' = "lock") => tj_mutex_ = "adm"]_vars
  /\ [][tryExecuteInstall => tj_mutex_ = "adm"]_vars
  /\ [][(\/ trajAccept
         \/ \E ok \in BOOLEAN : trajSmoothReturn(ok)
         \/ trajPollBody
         \/ trajAfterLoop
         \/ \E ok \in BOOLEAN : trajTimedReturn(ok)) => tj_mutex_ = "exec"]_vars
  /\ [][stateChangeAbort => tj_mutex_ = "free"]_vars

\* C18: at the moment try_execute installs a goal in the current-goal slot
\* and clears the interrupt flag, the stored robot state is Running.
C18_InstallWhileRunning ==
  [][tryExecuteInstall => state_ = "Running"]_vars

\* C19: the execution thread never accepts a goal, nor invokes the Follower
\* for it, after the goal has received a terminal result: in no goal's log
\* does an acceptance or a Follower call follow a terminal result.
C19_NoExecutionAfterTerminal ==
  \A g \in GoalIds :
    \A i, j \in 1..Len(gh_log[g]) :
      (i < j /\ gh_log[g][i].status \in TerminalStatus)
        => gh_log[g][j].status \notin {"Accepted", "Follower"}

\* ---------------------------------------------------- fair scheduling
\* every thread that can take a step takes one, the clock advances, every
\* Follower call returns, and a thread blocked on the execution lock takes it
\* when the lock is free again and again
Fairness ==
  /\ WF_vars(Tick)
  /\ WF_vars(tryExecuteTryLock)
  /\ SF_vars(tryExecuteLock)
  /\ WF_vars(tryExecuteInstall)
  /\ SF_vars(onCancelSet)
  /\ WF_vars(stateChangeTryLock)
  /\ WF_vars(stateChangeInterrupt)
  /\ SF_vars(stateChangeAbort)
  /\ SF_vars(trajWait)
  /\ WF_vars(trajPred)
  /\ WF_vars(trajAccept)
  /\ WF_vars(\E ok \in BOOLEAN : trajSmoothReturn(ok))
  /\ WF_vars(\E ok \in BOOLEAN : trajTimedReturn(ok))
  /\ WF_vars(trajSleep)
  /\ WF_vars(trajPollCond)
  /\ WF_vars(trajPollBody)
  /\ WF_vars(trajAfterLoop)

FairSpec == Spec /\ Fairness

\* C20: every call of onGoal, onCancel and onRobotStateChange eventually
\* returns (or the process exits): the admission thread and the robot-state
\* handler are idle again after every call.
C20_HandlersReturn ==
  /\ (pc_adm # "idle") ~> (pc_adm \in {"idle", "exited"})
  /\ (pc_saf # "idle") ~> (pc_saf \in {"idle", "exited"})

\* ------------------------------------------------ validation on its own
\* the admission thread and the robot-state handler, with every kind of
\* goal content, while the execution thread is not scheduled
NextValidation ==
  \/ \E smooth \in BOOLEAN, kill \in BOOLEAN : start(smooth, kill)
  \/ \E goal \in ValidationInputs : onGoal(goal)
  \/ tryExecuteTryLock
  \/ tryExecuteInstall
  \/ \E state \in RobotStates : onRobotStateChange(state)
  \/ stateChangeTryLock
  \/ stateChangeInterrupt
  \/ stateChangeAbort

SpecValidation == Init /\ [][NextValidation]_vars

\* the defects of the content of a goal
ContentDefect(goal) ==
  \/ Len(goal.points) = 0
  \/ \E n \in 1..Len(goal.points) :
       LET pt == goal.points[n]
       IN \/ Len(pt.positions) # Len(joint_names_)
          \/ Len(pt.velocities) # Len(joint_names_)
          \/ \E i \in 1..Len(pt.positions) : ~pt.positions[i].fin
          \/ \E i \in 1..Len(pt.velocities) :
               ~pt.velocities[i].fin \/ Abs(pt.velocities[i].v) > max_velocity_

\* C12: every goal rejected for its trajectory content is rejected with
\* error code INVALID_GOAL and a non-empty message.
C12_ContentRejection ==
  [][\A goal \in ValidationInputs :
       (onGoal(goal) /\ state_ = "Running" /\ ~BadJoints(goal) /\ ContentDefect(goal))
         => /\ LastEvent(gh_log', NewGoal).status = "Rejected"
            /\ LastEvent(gh_log', NewGoal).error_code = INVALID_GOAL
            /\ LastEvent(gh_log', NewGoal).error_string # ""]_vars

\* ----------------------------------------------- translation on its own
\* the execution thread has been woken for an admitted goal (line 289), the
\* snapshot holding any sample; no other goal, cancel request or state
\* notification arrives
InitTranslation ==
  /\ running_ = TRUE
  /\ state_ = "Running"
  /\ use_smooth_trajectory_ \in BOOLEAN
  /\ kill_on_hang_ = FALSE
  /\ interrupt_traj_ = FALSE
  /\ has_goal_ = TRUE
  /\ curr_gh_ = 1
  /\ tj_mutex_ = "exec"
  /\ \E data \in RTSamples \cup {Sample(Home, Still)} :
       /\ q_actual_ = data.q_actual
       /\ qd_actual_ = data.qd_actual
  /\ now = 0
  /\ goals \in {<<goal>> : goal \in TranslationInputs}
  /\ gh_log = <<<<>>>>
  /\ pc_adm = "idle"
  /\ adm_gh = NoGoal
  /\ adm_res = Res(0, "")
  /\ pc_saf = "idle"
  /\ pc_exec = "accept"
  /\ exec_gh = NoGoal
  /\ trajectory = <<>>
  /\ timeout = 0
  /\ sleep_until = 0
  /\ timed_out = FALSE
  /\ saf_gh = NoGoal

NextTranslation ==
  \/ trajAccept
  \/ \E ok \in BOOLEAN : trajSmoothReturn(ok)
  \/ \E ok \in BOOLEAN : trajTimedReturn(ok)
  \/ trajSleep
  \/ Tick
  \/ \E data \in RTSamples : updateState(data)
  \/ trajPollCond
  \/ trajPollBody
  \/ trajAfterLoop
  \/ trajWait
  \/ trajPred

SpecTranslation == InitTranslation /\ [][NextTranslation]_vars

\* the index, in the goal's order, of the joint named joint_names_[k]
GoalIndex(goal, k) == CHOOSE i \in 1..Len(goal.joint_names) : goal.joint_names[i] = joint_names_[k]

\* the trajectory point made from the goal's n-th point
Handed(goal, n) == trajectory[Len(trajectory) - Len(goal.points) + n]

\* C14: every trajectory point handed to the Follower holds, at each
\* canonical index k, the position and velocity that the goal gave for the
\* joint named joint_names_[k].
C14_Reordered ==
  pc_exec = "in_follower" =>
    LET goal == goals[exec_gh]
    IN \A n \in 1..Len(goal.points) : \A k \in 1..NJ :
         /\ Handed(goal, n).positions[k] = goal.points[n].positions[GoalIndex(goal, k)].v
         /\ Handed(goal, n).velocities[k] = goal.points[n].velocities[GoalIndex(goal, k)].v

\* a duration greater than zero
Positive(dur) == dur.sec > 0 \/ (dur.sec = 0 /\ dur.nsec > 0)

\* C15 (as claimed): one point is prepended if and only if the goal's first
\* point has a time_from_start greater than 0.
C15_PrependIffPositive ==
  pc_exec = "in_follower" =>
    LET goal == goals[exec_gh]
    IN Len(trajectory) = Len(goal.points)
         + (IF Positive(goal.points[1].time_from_start) THEN 1 ELSE 0)

\* C15 (amended): the execution thread prepends exactly one point (the
\* latest actual position and velocity, time 0) if and only if the first
\* point's time_from_start, truncated to whole microseconds, is greater
\* than 0; in both cases the goal's points follow in the goal's order, each
\* with its time in microseconds, and, for a goal in the canonical joint
\* order, with exactly the goal's positions and velocities.
C15_SyntheticStart ==
  [][trajAccept =>
       LET goal == goals[curr_gh_]
           fpt == convert(goal.points[1].time_from_start)
           off == Len(trajectory') - Len(goal.points)
       IN /\ off = (IF fpt > 0 THEN 1 ELSE 0)
          /\ off = 1 => trajectory'[1] = TrajectoryPoint(q_actual_, qd_actual_, 0)
          /\ \A n \in 1..Len(goal.points) :
               /\ trajectory'[off + n].time_from_start = convert(goal.points[n].time_from_start)
               /\ goal.joint_names = joint_names_
                    => /\ trajectory'[off + n].positions
                            = [k \in 1..NJ |-> goal.points[n].positions[k].v]
                       /\ trajectory'[off + n].velocities
                            = [k \in 1..NJ |-> goal.points[n].velocities[k].v]]_vars

\* a two-point goal starting at one second has been handed to the Follower
\* behind the sample of the robot off the target and moving
C15_Witness ==
  /\ pc_exec = "in_follower"
  /\ Len(goals[exec_gh].points) = 2
  /\ goals[exec_gh].points[1].time_from_start = Duration(1, 0)
  /\ Len(trajectory) = 3
  /\ trajectory[1] = TrajectoryPoint(TargetOff, Moving, 0)
  /\ trajectory[2].time_from_start = 1000000

====
